---------------------------- MODULE Spec2Model ----------------------------
(***************************************************************************)
(* A model of the feedforward network library: LinearLayer (layers.h),     *)
(* the softmax / cross-entropy evaluator (loss.h, softmax.h), the label    *)
(* codec (labels.h), rangeParExec (paral.h) and FeedFwdNN (net.h).         *)
(*                                                                         *)
(* Numbers.  Every float of the program is an integer of the model.        *)
(* Inputs, weights, signals and outputs are whole numbers.  The            *)
(* evaluator's probabilities, losses and gradients are carried in          *)
(* twelfths (Fix(1) = 12 stands for 1.0), and a learning rate lr of the    *)
(* model stands for the float 12 * lr, so that lr * gradient is again a    *)
(* whole number.  myExp and logf are monotone integer tables.  Non-finite  *)
(* floats (inf, NaN) are outside the model.                                *)
(*                                                                         *)
(* Matrices are sequences of rows; row r and column c of the program       *)
(* (0-based) are M[r+1][c+1] here.                                         *)
(***************************************************************************)
EXTENDS Integers, Sequences, FiniteSets, TLC

VARIABLES
    weights,            \* weights[l]: LinearLayer::weights of layer object l
    impl,               \* impl[l]: the Impl (activation pair) layer l was built with
    inputs,             \* FeedFwdNN::inputs and one_hot_labels: the default batch
    feedforward_funcs,  \* FeedFwdNN::feedforward_funcs, each lambda as the layer it captures
    backprop_funcs,     \* FeedFwdNN::backprop_funcs
    update_funcs,       \* FeedFwdNN::update_funcs
    loss,               \* MultiClassNN::loss, the recorded (cross_entropy, misclas) pair
    last,               \* history: the last call, its arguments, result, call trace and pre-state
    calls,              \* history: number of calls made so far
    par,                \* state of one rangeParExec run (its own specification)
    codec,              \* the last call of the label codec or the evaluator, with its outcome
    drv                 \* main() of mlp.cpp: its locals and its position

vars == <<weights, impl, inputs, feedforward_funcs, backprop_funcs,
          update_funcs, loss, last, calls, par, codec, drv>>

netvars == <<weights, impl, inputs, feedforward_funcs, backprop_funcs,
             update_funcs, loss, last, calls>>

---------------------------------------------------------------------------
(* Bounds *)

MaxCalls == 3       \* calls explored per behaviour
MaxRows == 4        \* largest row count given to rangeParExec

---------------------------------------------------------------------------
(* Dense matrices (Eigen), as far as the program uses them *)

RECURSIVE SumSeq(_)
SumSeq(s) == IF s = <<>> THEN 0 ELSE s[1] + SumSeq(Tail(s))

Rows(M) == Len(M)

Cols(M) == Len(M[1])

\* The vector (Op(1), ..., Op(n)) and the n x m matrix of Op(i, j), evaluated
Vec(n, Op(_)) == [k \in 1..n |-> Op(k)] \o <<>>

Mat(n, m, Op(_, _)) == [i \in 1..n |-> ([j \in 1..m |-> Op(i, j)] \o <<>>)] \o <<>>

\* unaryExpr
UnaryExpr(M, Op(_)) == Mat(Len(M), Cols(M), LAMBDA i, j : Op(M[i][j]))

Transpose(M) == Mat(Cols(M), Len(M), LAMBDA j, i : M[i][j])

Dot(a, b) == SumSeq(Vec(Len(a), LAMBDA k : a[k] * b[k]))

\* A * B; the caller has checked Cols(A) = Rows(B)
MatMul(A, B) ==
    LET BT == Transpose(B)
    IN  Mat(Len(A), Len(BT), LAMBDA i, j : Dot(A[i], BT[j]))

CwiseProduct(A, B) == Mat(Len(A), Cols(A), LAMBDA i, j : A[i][j] * B[i][j])

MatSub(A, B) == Mat(Len(A), Cols(A), LAMBDA i, j : A[i][j] - B[i][j])

ScalarMul(c, A) == Mat(Len(A), Cols(A), LAMBDA i, j : c * A[i][j])

Abs(x) == IF x < 0 THEN 0 - x ELSE x

\* Eigen's integer LinSpaced(size, low, high), element i = 0..size-1 at [i+1]:
\* a one-element vector holds `high`; otherwise the step is the integer
\* quotient (high - low) / (size - 1), or indices are divided when the range
\* is shorter than the vector.
LinSpaced(size, low, high) ==
    LET lo == IF size = 1 THEN high ELSE low
        span == Abs(high - lo) + 1
        multiplier == (high - lo) \div (IF size <= 1 THEN 1 ELSE size - 1)
        divisor == (size + (high - lo)) \div span
        use_divisor == size > 1 /\ span < size
    IN  Vec(size, LAMBDA k :
            IF use_divisor THEN lo + ((k - 1) \div divisor)
                           ELSE lo + (k - 1) * multiplier)

\* row.maxCoeff(&i): the 0-based index of the first largest coefficient
ArgMax(row) ==
    (CHOOSE k \in 1..Len(row) :
        /\ \A j \in 1..Len(row) : row[j] <= row[k]
        /\ \A j \in 1..(k - 1) : row[j] < row[k]) - 1

---------------------------------------------------------------------------
(* layers.h: LinearLayer<EigenType, Impl> *)

\* The activation pairs a layer may be built with: PlainLinearLayer's identity,
\* and a rectifier standing for any other Impl the CRTP parameter admits
ImplKinds == {"plain", "relu"}

\* Impl::activate
activate(im, f) == IF im = "plain" THEN f ELSE IF f > 0 THEN f ELSE 0

\* Impl::differentiate
differentiate(im, f) == IF im = "plain" THEN 1 ELSE IF f > 0 THEN 1 ELSE 0

augmentOne(to_augment) == Vec(Len(to_augment), LAMBDA i : Append(to_augment[i], 1))

transformGradient(W, gradient) ==
    MatMul(gradient, Transpose(SubSeq(W, 1, Len(W) - 1)))

feedForward(W, im, layer_inputs) ==
    LET aug_inputs == augmentOne(layer_inputs)
        signals == MatMul(aug_inputs, W)
        outputs == UnaryExpr(signals, LAMBDA f : activate(im, f))
    IN  <<signals, outputs>>

backPropagate(W, im, signals, tgradient) ==
    LET diff_signals == UnaryExpr(signals, LAMBDA f : differentiate(im, f))
        gradient == CwiseProduct(diff_signals, tgradient)
        new_tgradient == transformGradient(W, diff_signals)
    IN  <<gradient, new_tgradient>>

seedBackProp(W, im, signals, gradient) ==
    LET diff_signals == UnaryExpr(signals, LAMBDA f : differentiate(im, f))
        corrected_gradient == CwiseProduct(diff_signals, gradient)
        tgradient == transformGradient(W, corrected_gradient)
    IN  <<corrected_gradient, tgradient>>

\* What a product of mismatched shapes may leave in memory when Eigen's
\* assertions are compiled out: some matrix of the result's shape.
GarbageProducts(W) ==
    { Mat(Len(W), Cols(W), LAMBDA i, j : g) : g \in {0, 1} }

\* updateWeights: the set of outcomes [fatal, weights].  aug_inputs^T * gradient
\* needs as many input rows as gradient rows; otherwise Eigen's assertion ends
\* the process, or (assertions compiled out) the product is garbage.
updateWeights(W, layer_inputs, gradient, lr) ==
    IF Rows(layer_inputs) = Rows(gradient)
    THEN LET aug_inputs == augmentOne(layer_inputs)
             step == ScalarMul(lr, MatMul(Transpose(aug_inputs), gradient))
         IN  {[fatal |-> FALSE, weights |-> MatSub(W, step)]}
    ELSE {[fatal |-> TRUE, weights |-> W]}
         \cup {[fatal |-> FALSE, weights |-> MatSub(W, ScalarMul(lr, g))] :
                  g \in GarbageProducts(W)}

---------------------------------------------------------------------------
(* softmax.h, labels.h, loss.h *)

\* 1.0 in the evaluator's fixed-point unit
Fix(x) == 12 * x

\* myExp: a monotone integer table standing for exp on floats
myExp(x) ==
    IF x <= 0 - 1 THEN 1
    ELSE IF x = 0 THEN 2
    ELSE IF x = 1 THEN 4
    ELSE IF x = 2 THEN 8
    ELSE 16

\* std::logf on a probability in twelfths: minus one unit per halving below
\* 1.0; logf(0) = -inf is stood for by the table's lowest value
RECURSIVE Halvings(_, _)
Halvings(p, k) == IF k >= 4 \/ p >= Fix(1) THEN k ELSE Halvings(2 * p, k + 1)

logf(p) == 0 - Fix(Halvings(p, 0))

\* softMax(input, Ax::One)
softMax(input) ==
    LET raised == UnaryExpr(input, myExp)
        s == Vec(Len(input), LAMBDA i : SumSeq(raised[i]))
    IN  Mat(Len(input), Cols(input), LAMBDA i, j : Fix(raised[i][j]) \div s[i])

\* cast<int>() / cast<float>() of a bool
BoolToInt(b) == IF b THEN 1 ELSE 0

\* Labels::_toIndicesLabels: one_hot_labels_int * indices
toIndicesLabels(one_hot_labels) ==
    LET num_classes == Cols(one_hot_labels)
        indices == LinSpaced(num_classes, 0, num_classes)
    IN  Vec(Len(one_hot_labels), LAMBDA r :
            Dot(Vec(num_classes, LAMBDA c : BoolToInt(one_hot_labels[r][c])), indices))

\* minCoeff / maxCoeff of a vector
MinCoeff(v) == CHOOSE m \in {v[k] : k \in 1..Len(v)} : \A k \in 1..Len(v) : m <= v[k]

MaxCoeff(v) == CHOOSE m \in {v[k] : k \in 1..Len(v)} : \A k \in 1..Len(v) : v[k] <= m

\* Labels::_toOneHotLabels: the set of outcomes [status, labels].  After the
\* two checks the matrix is setZero() and rangeParExec sets one entry per row
\* index of its range; a row index outside the matrix writes out of bounds:
\* Eigen's assertion ends the process, or (assertions compiled out) the write
\* lands outside the matrix and the call returns.
toOneHotLabels(indices_labels, num_classes) ==
    IF MinCoeff(indices_labels) < 0 THEN {[status |-> "invalid_argument", labels |-> <<>>]}
    ELSE IF MaxCoeff(indices_labels) >= num_classes
    THEN {[status |-> "invalid_argument", labels |-> <<>>]}
    ELSE LET num_rows == Len(indices_labels)
             range == LinSpaced(num_rows, 0, num_rows)
             visited == {range[k] : k \in 1..num_rows}
             one_hot_labels == Mat(num_rows, num_classes, LAMBDA r, c :
                                   (r - 1) \in visited /\ (c - 1) = indices_labels[r])
         IN  (IF \E k \in 1..num_rows : range[k] \notin 0..(num_rows - 1)
                 THEN {[status |-> "fatal", labels |-> <<>>]}
                 ELSE {})
             \cup {[status |-> "returned", labels |-> one_hot_labels]}

\* The values an int that was never written may hold, as far as a comparison
\* with a class index can tell them apart
Uninitialized(num_classes) == (0 - 1)..num_classes

\* The row loop of _softMaxLoss run by rangeParExec: the possible contents of
\* max_col afterwards.  Slot r holds row r's argmax when r is in the range
\* rangeParExec builds, and was never written otherwise.
maxColOutcomes(softmaxed) ==
    LET num_rows == Len(softmaxed)
        range == LinSpaced(num_rows, 0, num_rows)
        visited == {range[k] : k \in 1..num_rows}
        unwritten == {r \in 1..num_rows : (r - 1) \notin visited}
    IN  { Vec(num_rows, LAMBDA r :
                IF r \in unwritten THEN left[r] ELSE ArgMax(softmaxed[r]))
          : left \in [unwritten -> Uninitialized(Cols(softmaxed))] }

\* rangeParExec hands the row function an index that is no row of the batch
rangeOutOfBounds(num_rows) ==
    \E k \in 1..num_rows : LinSpaced(num_rows, 0, num_rows)[k] \notin 0..(num_rows - 1)

\* Neural::_softMaxLoss: the set of outcomes [fatal, loss, gradient].  A row
\* index outside the batch is an out-of-bounds read of softmaxed and write of
\* max_col: Eigen's assertion ends the process, or (assertions compiled out)
\* the call goes on with max_col as maxColOutcomes describes it.
softMaxLoss(outputs, one_hot_labels) ==
    LET num_rows == Len(one_hot_labels)
        num_classes == Cols(one_hot_labels)
        labels_float == UnaryExpr(one_hot_labels, BoolToInt)
        softmaxed == softMax(outputs)
        probs == Vec(num_rows, LAMBDA i : Dot(softmaxed[i], labels_float[i]))
        logits == Vec(num_rows, LAMBDA i : logf(probs[i]))
        cross_entropy == (0 - SumSeq(logits)) \div num_rows
        indices_labels == toIndicesLabels(one_hot_labels)
        misclas(max_col) ==
            Fix(Cardinality({r \in 1..num_rows : max_col[r] # indices_labels[r]}))
                \div num_rows
        gradient == Mat(num_rows, num_classes, LAMBDA i, j :
                        (softmaxed[i][j] - Fix(labels_float[i][j])) \div num_rows)
    IN  (IF rangeOutOfBounds(num_rows)
            THEN {[fatal |-> TRUE, loss |-> <<0, 0>>, gradient |-> <<>>]}
            ELSE {})
        \cup {[fatal |-> FALSE, loss |-> <<cross_entropy, misclas(mc)>>,
               gradient |-> gradient] : mc \in maxColOutcomes(softmaxed)}

\* MultiClassNN::evaluate
evaluate(outputs, one_hot_labels) == softMaxLoss(outputs, one_hot_labels)

---------------------------------------------------------------------------
(* net.h: FeedFwdNN and MultiClassNN *)

\* The layer objects the driver builds: the output layer and hidden layers
OutputLayer == "out"

HiddenLayers == {"h1", "h2"}

Layers == HiddenLayers \cup {OutputLayer}

\* One call made by the network during a pass, for the call trace
Event(kind, layer, a, b, lr, ret) ==
    [kind |-> kind, layer |-> layer, a |-> a, b |-> b, lr |-> lr, ret |-> ret]

\* fwdPass, lines 137-146: the loop over feedforward_funcs and the output
\* layer's forward call
RECURSIVE fwdLoop(_, _, _, _)
fwdLoop(ffuncs, W, k, acc) ==
    IF k > Len(ffuncs) THEN acc
    ELSE LET func == ffuncs[k]
             signals_outputs == feedForward(W[func], impl[func], acc.next_inputs)
         IN  fwdLoop(ffuncs, W, k + 1,
                 [next_inputs |-> signals_outputs[1],
                  signals_outputs_vec |-> Append(acc.signals_outputs_vec, signals_outputs),
                  trace |-> Append(acc.trace,
                      Event("fwd", func, acc.next_inputs, <<>>, 0, signals_outputs))])

\* fwdPass: the set of outcomes.  `ret` is entropy_gradient.first, `loss` the
\* value of crtp_handle->loss afterwards.
fwdPass(ffuncs, W, old_loss, curr_inputs, curr_one_hot_labels, update_loss) ==
    LET hidden == fwdLoop(ffuncs, W, 1,
                      [next_inputs |-> curr_inputs, signals_outputs_vec |-> <<>>,
                       trace |-> <<>>])
        final_signals_outputs ==
            feedForward(W[OutputLayer], impl[OutputLayer], hidden.next_inputs)
        final_signals == final_signals_outputs[1]
        final_outputs == final_signals_outputs[2]
        fwd_trace == Append(hidden.trace,
            Event("fwd", OutputLayer, hidden.next_inputs, <<>>, 0, final_signals_outputs))
    IN  { [fatal |-> entropy_gradient.fatal,
           signals_outputs_vec |-> hidden.signals_outputs_vec,
           final_signals |-> final_signals,
           pre_gradient |-> entropy_gradient.gradient,
           ret |-> entropy_gradient.loss,
           loss |-> IF update_loss /\ ~entropy_gradient.fatal
                       THEN entropy_gradient.loss ELSE old_loss,
           trace |-> Append(fwd_trace,
               Event("eval", "evaluator", final_outputs, curr_one_hot_labels, 0,
                     IF entropy_gradient.fatal THEN <<>>
                     ELSE <<entropy_gradient.loss, entropy_gradient.gradient>>))]
          : entropy_gradient \in evaluate(final_outputs, curr_one_hot_labels) }

\* Mutant of bwdLoop: the hidden layers are walked first to last
RECURSIVE bwdLoopFirstToLast(_, _, _, _, _)
bwdLoopFirstToLast(bfuncs, W, signals_outputs_vec, i, acc) ==
    IF i <= 0 THEN acc
    ELSE LET at == Len(signals_outputs_vec) - i + 1
             signals == signals_outputs_vec[at][1]
             func == bfuncs[at]
             gradient_tgradient == backPropagate(W[func], impl[func], signals, acc.tgradient)
         IN  bwdLoopFirstToLast(bfuncs, W, signals_outputs_vec, i - 1,
                 [tgradient |-> gradient_tgradient[2],
                  gradient_vec |-> Append(acc.gradient_vec, gradient_tgradient[1]),
                  trace |-> Append(acc.trace,
                      Event("bwd", func, signals, acc.tgradient, 0, gradient_tgradient))])

\* bwdPass, lines 169-178: the loop from the last hidden layer to the first
RECURSIVE bwdLoop(_, _, _, _, _)
bwdLoop(bfuncs, W, signals_outputs_vec, i, acc) ==
    IF i <= 0 THEN acc
    ELSE LET signals == signals_outputs_vec[i][1]
             func == bfuncs[i]
             gradient_tgradient == backPropagate(W[func], impl[func], signals, acc.tgradient)
         IN  bwdLoop(bfuncs, W, signals_outputs_vec, i - 1,
                 [tgradient |-> gradient_tgradient[2],
                  gradient_vec |-> Append(acc.gradient_vec, gradient_tgradient[1]),
                  trace |-> Append(acc.trace,
                      Event("bwd", func, signals, acc.tgradient, 0, gradient_tgradient))])

\* bwdPass: [gradient_vec, trace]
bwdPass(bfuncs, W, signals_outputs_vec, final_signals, pre_gradient) ==
    LET gradient_tgradient ==
            seedBackProp(W[OutputLayer], impl[OutputLayer], final_signals, pre_gradient)
        done == bwdLoop(bfuncs, W, signals_outputs_vec, Len(signals_outputs_vec),
                    [tgradient |-> gradient_tgradient[2],
                     gradient_vec |-> <<gradient_tgradient[1]>>,
                     trace |-> <<Event("seed", OutputLayer, final_signals, pre_gradient,
                                       0, gradient_tgradient)>>])
    IN  [gradient_vec |-> done.gradient_vec, trace |-> done.trace]

\* updateNetwork, lines 191-194: call k of the update pass (k = 1 is
\* update_funcs[0], fed the member `inputs`) and the calls after it
RECURSIVE updateLoop(_, _, _, _, _, _)
updateLoop(ufuncs, outputs_vec, gradient_vec, lr, k, acc) ==
    IF k > Len(outputs_vec) + 1 THEN {acc}
    ELSE LET func == ufuncs[k]
             layer_inputs == IF k = 1 THEN inputs.X ELSE outputs_vec[k - 1]
             gradient == gradient_vec[Len(gradient_vec) - (k - 1)]
             trace == Append(acc.trace, Event("upd", func, layer_inputs, gradient, lr, <<>>))
         IN  UNION { IF o.fatal
                     THEN {[status |-> "fatal", W |-> acc.W, trace |-> trace]}
                     ELSE updateLoop(ufuncs, outputs_vec, gradient_vec, lr, k + 1,
                              [status |-> "ok",
                               W |-> [acc.W EXCEPT ![func] = o.weights],
                               trace |-> trace])
                     : o \in updateWeights(acc.W[func], layer_inputs, gradient, lr) }

\* Mutant of updateNetwork: the output layer's update function is left in
\* update_funcs
updateNetworkNoPop(ufuncs, W, outputs_vec, gradient_vec, lr) ==
    IF lr < 0
    THEN {[status |-> "invalid_argument", W |-> W, update_funcs |-> ufuncs,
           trace |-> <<>>]}
    ELSE LET pushed == Append(ufuncs, OutputLayer)
         IN  { [status |-> o.status, W |-> o.W, trace |-> o.trace,
                update_funcs |-> pushed]
               : o \in updateLoop(pushed, outputs_vec, gradient_vec, lr, 1,
                           [status |-> "ok", W |-> W, trace |-> <<>>]) }

\* updateNetwork: the set of outcomes [status, W, update_funcs, trace]
updateNetwork(ufuncs, W, outputs_vec, gradient_vec, lr) ==
    IF lr < 0
    THEN {[status |-> "invalid_argument", W |-> W, update_funcs |-> ufuncs,
           trace |-> <<>>]}
    ELSE LET pushed == Append(ufuncs, OutputLayer)
         IN  { [status |-> o.status, W |-> o.W, trace |-> o.trace,
                update_funcs |-> IF o.status = "fatal" THEN pushed
                                 ELSE SubSeq(pushed, 1, Len(pushed) - 1)]
               : o \in updateLoop(pushed, outputs_vec, gradient_vec, lr, 1,
                           [status |-> "ok", W |-> W, trace |-> <<>>]) }

\* train(lr, curr_inputs, curr_one_hot_labels): the set of outcomes
\* [status, ret, W, loss, update_funcs, trace]
train(ffuncs, bfuncs, ufuncs, W, old_loss, lr, curr_inputs, curr_one_hot_labels) ==
    UNION { IF tup.fatal
            THEN {[status |-> "fatal", ret |-> <<>>, W |-> W, loss |-> tup.loss,
                   update_funcs |-> ufuncs, trace |-> tup.trace]}
            ELSE LET back == bwdPass(bfuncs, W, tup.signals_outputs_vec,
                                     tup.final_signals, tup.pre_gradient)
                     outputs_vec == Vec(Len(tup.signals_outputs_vec),
                                        LAMBDA k : tup.signals_outputs_vec[k][2])
                 IN  { [status |-> IF upd.status = "ok" THEN "returned" ELSE upd.status,
                        ret |-> IF upd.status = "ok" THEN tup.loss ELSE <<>>,
                        W |-> upd.W,
                        loss |-> tup.loss,
                        update_funcs |-> upd.update_funcs,
                        trace |-> tup.trace \o back.trace \o upd.trace]
                       : upd \in updateNetwork(ufuncs, W, outputs_vec,
                                               back.gradient_vec, lr) }
            : tup \in fwdPass(ffuncs, W, old_loss, curr_inputs, curr_one_hot_labels, TRUE) }

\* Mutant of test: the forward pass records the loss, as train's does
testRecordingLoss(ffuncs, W, old_loss, curr_inputs, curr_one_hot_labels) ==
    { [status |-> IF tup.fatal THEN "fatal" ELSE "returned",
       ret |-> IF tup.fatal THEN <<>> ELSE tup.ret,
       W |-> W,
       loss |-> tup.loss,
       trace |-> tup.trace]
      : tup \in fwdPass(ffuncs, W, old_loss, curr_inputs, curr_one_hot_labels, TRUE) }

\* test(curr_inputs, curr_one_hot_labels): the set of outcomes
test(ffuncs, W, old_loss, curr_inputs, curr_one_hot_labels) ==
    { [status |-> IF tup.fatal THEN "fatal" ELSE "returned",
       ret |-> IF tup.fatal THEN <<>> ELSE tup.ret,
       W |-> W,
       loss |-> tup.loss,
       trace |-> tup.trace]
      : tup \in fwdPass(ffuncs, W, old_loss, curr_inputs, curr_one_hot_labels, FALSE) }

\* pushLayer: the three lists afterwards
pushLayer(ffuncs, bfuncs, ufuncs, layer) ==
    <<Append(ffuncs, layer), Append(bfuncs, layer), Append(ufuncs, layer)>>

\* Mutant of popLayer: the first entry of each list is removed
popLayerFront(ffuncs, bfuncs, ufuncs) ==
    <<Tail(ffuncs), Tail(bfuncs), Tail(ufuncs)>>

\* popLayer: the three lists afterwards
popLayer(ffuncs, bfuncs, ufuncs) ==
    <<SubSeq(ffuncs, 1, Len(ffuncs) - 1), SubSeq(bfuncs, 1, Len(bfuncs) - 1),
      SubSeq(ufuncs, 1, Len(ufuncs) - 1)>>

---------------------------------------------------------------------------
(* The driver's side: the batches and the layers the network is built from *)

\* Batches [X: N x 2 features, Y: N x 3 one-hot labels] of 1, 3, 3 and 4 rows
Batches ==
    { [X |-> <<<<1, 0>>>>,
       Y |-> <<<<TRUE, FALSE, FALSE>>>>],
      [X |-> <<<<1, 0>>, <<0, 1>>, <<1, 1>>>>,
       Y |-> <<<<TRUE, FALSE, FALSE>>, <<FALSE, TRUE, FALSE>>, <<FALSE, FALSE, TRUE>>>>],
      [X |-> <<<<0, 2>>, <<1, 0>>, <<1, 1>>>>,
       Y |-> <<<<FALSE, TRUE, FALSE>>, <<TRUE, FALSE, FALSE>>, <<FALSE, FALSE, TRUE>>>>],
      [X |-> <<<<1, 0>>, <<0, 1>>, <<1, 1>>, <<0, 0>>>>,
       Y |-> <<<<TRUE, FALSE, FALSE>>, <<FALSE, TRUE, FALSE>>, <<FALSE, FALSE, TRUE>>,
               <<TRUE, FALSE, FALSE>>>>] }

\* The default batch handed to the constructor
DefaultBatches == {b \in Batches : Rows(b.X) = 3 /\ b.X[1] = <<1, 0>>}

\* Learning rates passed to train
Rates == {0 - 1, 0, 1}

\* Weights a 2 -> 2 hidden layer is constructed with (in_dim + 1 rows); layers
\* of one shape built with the same seed start with the same weights
HiddenWeights == { <<<<1, 0 - 1>>, <<0 - 1, 1>>, <<0, 0>>>> }

\* Weights the 2 -> 3 output layer may be constructed with
OutputWeights == { <<<<1, 0, 0 - 1>>, <<0, 1, 0>>, <<0, 0, 0>>>> }

\* The network's own state, as a call finds it
Snapshot ==
    [weights |-> weights, loss |-> loss, feedforward_funcs |-> feedforward_funcs,
     backprop_funcs |-> backprop_funcs, update_funcs |-> update_funcs]

NoSnapshot ==
    [weights |-> <<>>, loss |-> <<>>, feedforward_funcs |-> <<>>,
     backprop_funcs |-> <<>>, update_funcs |-> <<>>]

NoBatch == [X |-> <<>>, Y |-> <<>>]

Call(op, layer, lr, batch, status, ret, trace) ==
    [op |-> op, layer |-> layer, lr |-> lr, batch |-> batch, status |-> status,
     ret |-> ret, trace |-> trace, pre |-> Snapshot,
     prevOp |-> last.op,
     pushes |-> last.pushes + (IF op = "push" THEN 1 ELSE 0),
     pops |-> last.pops + (IF op = "pop" THEN 1 ELSE 0)]

\* rangeParExec is not running
ParIdle ==
    [phase |-> "idle", kind |-> "", num_rows |-> 0, range |-> <<>>, todo |-> {},
     worker |-> <<>>, slots |-> <<>>, written |-> {}, applied |-> <<>>,
     writes |-> <<>>, result |-> <<>>]

\* No codec or evaluator call has been made
CodecIdle ==
    [op |-> "", X |-> <<>>, indices |-> <<>>, outputs |-> <<>>, num_classes |-> 0,
     status |-> "", ret |-> <<>>]

\* std::numeric_limits<float>::max(), above every loss of the model
FloatMax == 1000

\* main() has not started
DrvIdle ==
    [pc |-> "idle", train_data_labels |-> <<>>, val_data_labels |-> <<>>,
     test_data_labels |-> <<>>, train_pair |-> NoBatch, val_pair |-> NoBatch,
     test_pair |-> NoBatch, lr |-> 0, decayed_lr |-> 0, val_loss |-> 0,
     val_loss_new |-> 0, violations |-> 0, i |-> 0, test_misclas |-> 0]

\* PlainLinearLayer / LinearLayer constructors, FeedFwdNN constructor
Init ==
    /\ weights \in [Layers -> HiddenWeights \cup OutputWeights]
    /\ \A l \in HiddenLayers : weights[l] \in HiddenWeights
    /\ weights[OutputLayer] \in OutputWeights
    /\ impl \in [Layers -> ImplKinds]
    /\ impl[OutputLayer] = "plain"
    /\ inputs \in DefaultBatches
    /\ feedforward_funcs = <<>>
    /\ backprop_funcs = <<>>
    /\ update_funcs = <<>>
    /\ loss = <<0, 0>>
    /\ last = [op |-> "init", layer |-> "", lr |-> 0, batch |-> NoBatch,
               status |-> "returned", ret |-> <<>>, trace |-> <<>>,
               pre |-> NoSnapshot, prevOp |-> "", pushes |-> 0, pops |-> 0]
    /\ calls = 0
    /\ par = ParIdle
    /\ codec = CodecIdle
    /\ drv = DrvIdle

\* The process is alive and the exploration bound is not reached
CanCall == last.status # "fatal" /\ calls < MaxCalls

PushLayer(layer) ==
    /\ CanCall
    /\ \A k \in 1..Len(feedforward_funcs) : feedforward_funcs[k] # layer
    /\ LET lists == pushLayer(feedforward_funcs, backprop_funcs, update_funcs, layer)
       IN  /\ feedforward_funcs' = lists[1]
           /\ backprop_funcs' = lists[2]
           /\ update_funcs' = lists[3]
    /\ last' = Call("push", layer, 0, NoBatch, "returned", <<>>, <<>>)
    /\ calls' = calls + 1
    /\ UNCHANGED <<weights, impl, inputs, loss, par, codec, drv>>

PopLayer ==
    /\ CanCall
    /\ Len(feedforward_funcs) > 0
    /\ LET lists == popLayer(feedforward_funcs, backprop_funcs, update_funcs)
       IN  /\ feedforward_funcs' = lists[1]
           /\ backprop_funcs' = lists[2]
           /\ update_funcs' = lists[3]
    /\ last' = Call("pop", "", 0, NoBatch, "returned", <<>>, <<>>)
    /\ calls' = calls + 1
    /\ UNCHANGED <<weights, impl, inputs, loss, par, codec, drv>>

Train(lr, batch) ==
    /\ CanCall
    /\ \E o \in train(feedforward_funcs, backprop_funcs, update_funcs, weights, loss,
                      lr, batch.X, batch.Y) :
          /\ weights' = o.W
          /\ loss' = o.loss
          /\ update_funcs' = o.update_funcs
          /\ last' = Call("train", "", lr, batch, o.status, o.ret, o.trace)
    /\ calls' = calls + 1
    /\ UNCHANGED <<impl, inputs, feedforward_funcs, backprop_funcs, par, codec, drv>>

\* train(lr): the overload on the default batch
TrainDefault(lr) == Train(lr, inputs)

Test(batch) ==
    /\ CanCall
    /\ \E o \in test(feedforward_funcs, weights, loss, batch.X, batch.Y) :
          /\ weights' = o.W
          /\ loss' = o.loss
          /\ last' = Call("test", "", 0, batch, o.status, o.ret, o.trace)
    /\ calls' = calls + 1
    /\ UNCHANGED <<impl, inputs, feedforward_funcs, backprop_funcs, update_funcs, par,
                   codec, drv>>

Next ==
    \/ \E layer \in HiddenLayers : PushLayer(layer)
    \/ PopLayer
    \/ \E lr \in Rates, batch \in Batches : Train(lr, batch)
    \/ \E lr \in Rates : TrainDefault(lr)
    \/ \E batch \in Batches : Test(batch)

Spec == Init /\ [][Next]_vars

---------------------------------------------------------------------------
(* paral.h: one rangeParExec run, step by step, with the two row functions
   the program gives it (loss.h lines 35-39, labels.h lines 59-61) *)

Workers == {"w1", "w2"}

\* The matrix the evaluator's row function reads: row r has its largest
\* coefficient in column r mod 3
ParSoftmaxed(num_rows) ==
    Mat(num_rows, 3, LAMBDA i, j : IF j - 1 = (i - 1) % 3 THEN Fix(1) - 2 ELSE 1)

\* The index labels the codec's row function reads: row r is of class r mod 3
ParIndicesLabels(num_rows) == Vec(num_rows, LAMBDA i : (i - 1) % 3)

\* max_col is allocated and not initialized (its slots hold nothing until
\* they are in `written`); one_hot_labels is setZero()
ParSlotsAtStart(kind, num_rows) ==
    Vec(num_rows, LAMBDA i : IF kind = "argmax" THEN 0 ELSE <<FALSE, FALSE, FALSE>>)

\* What the row function stores in slot row_number (0-based)
ParRowResult(kind, num_rows, row_number) ==
    IF kind = "argmax"
    THEN ArgMax(ParSoftmaxed(num_rows)[row_number + 1])
    ELSE Vec(3, LAMBDA c : c - 1 = ParIndicesLabels(num_rows)[row_number + 1])

\* rangeParExec, lines 11-12: the range is built
ParStart(kind, num_rows) ==
    /\ par.phase = "idle"
    /\ par' = [phase |-> "running", kind |-> kind, num_rows |-> num_rows,
               range |-> LinSpaced(num_rows, 0, num_rows),
               todo |-> 1..num_rows,
               worker |-> [w \in Workers |-> 0],
               slots |-> ParSlotsAtStart(kind, num_rows),
               written |-> IF kind = "argmax" THEN {} ELSE 0..(num_rows - 1),
               applied |-> <<>>, writes |-> <<>>, result |-> <<>>]
    /\ UNCHANGED <<netvars, codec, drv>>

\* std::for_each(std::execution::par, ...): a free worker takes an element
ParTake(w) ==
    /\ par.phase = "running"
    /\ par.worker[w] = 0
    /\ \E k \in par.todo :
          par' = [par EXCEPT !.todo = @ \ {k}, !.worker[w] = k]
    /\ UNCHANGED <<netvars, codec, drv>>

\* The worker runs func on its element.  A row index outside the batch reads
\* and writes out of bounds: Eigen's assertion ends the process, or
\* (assertions compiled out) the write lands outside the output.
ParApply(w) ==
    /\ par.phase = "running"
    /\ par.worker[w] # 0
    /\ LET row_number == par.range[par.worker[w]]
           applied == Append(par.applied, row_number)
           writes == Append(par.writes, [by |-> row_number, slot |-> row_number])
       IN  IF row_number \in 0..(par.num_rows - 1)
           THEN par' = [par EXCEPT
                    !.worker[w] = 0, !.applied = applied, !.writes = writes,
                    !.written = @ \cup {row_number},
                    !.slots[row_number + 1] =
                        ParRowResult(par.kind, par.num_rows, row_number)]
           ELSE \/ par' = [par EXCEPT !.phase = "fatal", !.applied = applied]
                \/ par' = [par EXCEPT
                       !.worker[w] = 0, !.applied = applied, !.writes = writes]
    /\ UNCHANGED <<netvars, codec, drv>>

\* for_each returns when every element has been processed
ParJoin ==
    /\ par.phase = "running"
    /\ par.todo = {}
    /\ \A w \in Workers : par.worker[w] = 0
    /\ par' = [par EXCEPT !.phase = "joined"]
    /\ UNCHANGED <<netvars, codec, drv>>

\* The aggregate after the join reads every slot (loss.h line 41, labels.h
\* line 64); a slot never written holds any value
ParReduce ==
    /\ par.phase = "joined"
    /\ \E read \in [(0..(par.num_rows - 1)) \ par.written -> Uninitialized(3)] :
          par' = [par EXCEPT
              !.phase = "reduced",
              !.result = Vec(par.num_rows, LAMBDA i :
                             IF (i - 1) \in par.written THEN par.slots[i]
                             ELSE read[i - 1])]
    /\ UNCHANGED <<netvars, codec, drv>>

NextPar ==
    \/ \E kind \in {"argmax", "onehot"}, num_rows \in 1..MaxRows : ParStart(kind, num_rows)
    \/ \E w \in Workers : ParTake(w)
    \/ \E w \in Workers : ParApply(w)
    \/ ParJoin
    \/ ParReduce

SpecPar == Init /\ [][NextPar]_vars

---------------------------------------------------------------------------
(* labels.h and loss.h called on their own: the codec's two functions and the
   evaluator, each applied to inputs drawn from bounded sets.  The functions
   keep no state, so a behaviour is one application (or toIndicesLabels
   followed by toOneHotLabels on its result). *)

MaxClasses == 3     \* largest number of classes of a label matrix

\* The rows of C booleans with exactly one TRUE
OneHotRows(C) == { Vec(C, LAMBDA c : c = p) : p \in 1..C }

\* The N x C one-hot matrices, N in 1..MaxRows, C in 1..MaxClasses
OneHots ==
    UNION { { Vec(N, LAMBDA r : f[r]) : f \in [1..N -> OneHotRows(C)] }
            : N \in 1..MaxRows, C \in 1..MaxClasses }

\* Index vectors, valid and not: entries from -1 to MaxClasses
IndexVectors ==
    UNION { { Vec(N, LAMBDA r : f[r]) : f \in [1..N -> (0 - 1)..MaxClasses] }
            : N \in 1..MaxRows }

\* Output rows of C scores: one score of 10 among zeros, or all zeros (a tie)
ScoreRows(C) ==
    { Vec(C, LAMBDA c : IF c = p THEN 10 ELSE 0) : p \in 0..C }

\* The outputs matrices of the shape of the label matrix Y
Scores(Y) ==
    { Vec(Len(Y), LAMBDA r : f[r]) : f \in [1..Len(Y) -> ScoreRows(Cols(Y))] }

\* Labels::toIndicesLabels(X)
ToIndicesLabels(X) ==
    /\ codec' = [op |-> "toIndicesLabels", X |-> X, indices |-> <<>>, outputs |-> <<>>,
                 num_classes |-> Cols(X), status |-> "returned",
                 ret |-> toIndicesLabels(X)]
    /\ UNCHANGED <<netvars, par, drv>>

\* Labels::toOneHotLabels(indices, num_classes)
ToOneHotLabels(indices_labels, num_classes) ==
    /\ \E o \in toOneHotLabels(indices_labels, num_classes) :
          codec' = [op |-> "toOneHotLabels", X |-> <<>>, indices |-> indices_labels,
                    outputs |-> <<>>, num_classes |-> num_classes,
                    status |-> o.status, ret |-> o.labels]
    /\ UNCHANGED <<netvars, par, drv>>

\* Labels::toOneHotLabels on what toIndicesLabels has just returned for X,
\* with X's number of classes
ToOneHotLabelsBack ==
    /\ codec.op = "toIndicesLabels"
    /\ \E o \in toOneHotLabels(codec.ret, codec.num_classes) :
          codec' = [op |-> "roundTrip", X |-> codec.X, indices |-> codec.ret,
                    outputs |-> <<>>, num_classes |-> codec.num_classes,
                    status |-> o.status, ret |-> o.labels]
    /\ UNCHANGED <<netvars, par, drv>>

\* Neural::softMaxLoss(outputs, one_hot_labels)
SoftMaxLoss(outputs, one_hot_labels) ==
    /\ \E o \in softMaxLoss(outputs, one_hot_labels) :
          codec' = [op |-> "softMaxLoss", X |-> one_hot_labels, indices |-> <<>>,
                    outputs |-> outputs, num_classes |-> Cols(one_hot_labels),
                    status |-> IF o.fatal THEN "fatal" ELSE "returned",
                    ret |-> IF o.fatal THEN <<>> ELSE o.loss]
    /\ UNCHANGED <<netvars, par, drv>>

\* No application has been made in this behaviour
CodecFree == codec.op = ""

NextCodec ==
    \/ CodecFree /\ \E X \in OneHots : ToIndicesLabels(X)
    \/ CodecFree /\ \E indices_labels \in IndexVectors, num_classes \in 1..MaxClasses :
                        ToOneHotLabels(indices_labels, num_classes)
    \/ ToOneHotLabelsBack
    \/ CodecFree /\ \E Y \in OneHots : \E outputs \in Scores(Y) : SoftMaxLoss(outputs, Y)

SpecCodec == Init /\ [][NextCodec]_vars

---------------------------------------------------------------------------
(* mlp.cpp: main(), statement by statement.  A data row is the features
   followed by three label columns; the model's rows have two features where
   the iris files have four. *)

\* What Input::readData may return for a file: the rows of the file
DataFiles ==
    { << <<1, 0, 1, 0, 0>>, <<0, 1, 0, 1, 0>>, <<1, 1, 0, 0, 1>> >>,
      << <<0, 2, 0, 1, 0>>, <<1, 0, 1, 0, 0>>, <<1, 1, 0, 0, 1>> >>,
      << <<1, 0, 1, 0, 0>>, <<0, 1, 0, 1, 0>>, <<1, 1, 0, 0, 1>>, <<0, 0, 1, 0, 0>> >> }

\* The lambda of lines 37-41: the feature columns and the last three columns
\* cast to bool
toDataIndicesPairs(data_labels) ==
    [X |-> Vec(Len(data_labels), LAMBDA r : SubSeq(data_labels[r], 1, 2)),
     Y |-> Vec(Len(data_labels), LAMBDA r :
               Vec(3, LAMBDA c : data_labels[r][Len(data_labels[r]) - 3 + c] # 0))]

\* Lines 27-34: the three files are read
DrvLoad ==
    /\ drv.pc = "idle"
    /\ \E tr \in DataFiles, va \in DataFiles, te \in DataFiles :
          drv' = [drv EXCEPT !.pc = "prepare", !.train_data_labels = tr,
                             !.val_data_labels = va, !.test_data_labels = te]
    /\ UNCHANGED <<netvars, par, codec>>

\* Lines 43-52: the three pairs; test_pair is made from val_data_labels
DrvPrepare ==
    /\ drv.pc = "prepare"
    /\ drv' = [drv EXCEPT !.pc = "build",
                          !.train_pair = toDataIndicesPairs(drv.train_data_labels),
                          !.val_pair = toDataIndicesPairs(drv.val_data_labels),
                          !.test_pair = toDataIndicesPairs(drv.val_data_labels)]
    /\ UNCHANGED <<netvars, par, codec>>

\* Lines 55-58: the two PlainLinearLayers and the network on the training pair
DrvBuild ==
    /\ drv.pc = "build"
    /\ weights' \in [Layers -> HiddenWeights \cup OutputWeights]
    /\ \A l \in HiddenLayers : weights'[l] \in HiddenWeights
    /\ weights'[OutputLayer] \in OutputWeights
    /\ impl' = [l \in Layers |-> "plain"]
    /\ inputs' = drv.train_pair
    /\ feedforward_funcs' = <<>>
    /\ backprop_funcs' = <<>>
    /\ update_funcs' = <<>>
    /\ loss' = <<0, 0>>
    /\ drv' = [drv EXCEPT !.pc = "push"]
    /\ UNCHANGED <<last, calls, par, codec>>

\* Lines 59-67: nn.pushLayer(hidden_layer) and the loop's locals
DrvPushLayer ==
    /\ drv.pc = "push"
    /\ LET lists == pushLayer(feedforward_funcs, backprop_funcs, update_funcs, "h1")
       IN  /\ feedforward_funcs' = lists[1]
           /\ backprop_funcs' = lists[2]
           /\ update_funcs' = lists[3]
    /\ last' = Call("push", "h1", 0, NoBatch, "returned", <<>>, <<>>)
    /\ calls' = calls + 1
    /\ drv' = [drv EXCEPT !.pc = "train", !.lr = 1, !.decayed_lr = 1,
                          !.val_loss = FloatMax, !.val_loss_new = FloatMax - 1,
                          !.violations = 0, !.i = 0]
    /\ UNCHANGED <<weights, impl, inputs, loss, par, codec>>

\* Lines 72-75: the loop test, i++ and nn.train(decayed_lr)
DrvTrain ==
    /\ drv.pc = "train"
    /\ drv.violations < 3
    /\ \E o \in train(feedforward_funcs, backprop_funcs, update_funcs, weights, loss,
                      drv.decayed_lr, inputs.X, inputs.Y) :
          /\ weights' = o.W
          /\ loss' = o.loss
          /\ update_funcs' = o.update_funcs
          /\ last' = Call("train", "", drv.decayed_lr, inputs, o.status, o.ret, o.trace)
          /\ drv' = [drv EXCEPT !.i = @ + 1,
                                !.pc = IF o.status = "returned" THEN "validate"
                                       ELSE "aborted"]
    /\ calls' = calls + 1
    /\ UNCHANGED <<impl, inputs, feedforward_funcs, backprop_funcs, par, codec>>

\* Lines 77-81: nn.test(val_inputs, val_labels), the violation count and the
\* decayed rate lr / (1 + i * decay_rate) with decay_rate = 1/10, as a whole
\* number
DrvValidate ==
    /\ drv.pc = "validate"
    /\ \E o \in test(feedforward_funcs, weights, loss, drv.val_pair.X, drv.val_pair.Y) :
          /\ weights' = o.W
          /\ loss' = o.loss
          /\ last' = Call("test", "", 0, drv.val_pair, o.status, o.ret, o.trace)
          /\ drv' = IF o.status = "returned"
                    THEN [drv EXCEPT
                             !.pc = "train",
                             !.val_loss_new = o.ret[1],
                             !.violations = @ + BoolToInt(o.ret[1] >= drv.val_loss),
                             !.val_loss = o.ret[1],
                             !.decayed_lr = (10 * drv.lr) \div (10 + drv.i)]
                    ELSE [drv EXCEPT !.pc = "aborted"]
    /\ calls' = calls + 1
    /\ UNCHANGED <<impl, inputs, feedforward_funcs, backprop_funcs, update_funcs, par,
                   codec>>

\* Lines 85-86: nn.test(test_inputs, test_labels) and the reported metric
DrvTest ==
    /\ drv.pc = "train"
    /\ drv.violations >= 3
    /\ \E o \in test(feedforward_funcs, weights, loss, drv.test_pair.X, drv.test_pair.Y) :
          /\ weights' = o.W
          /\ loss' = o.loss
          /\ last' = Call("test", "", 0, drv.test_pair, o.status, o.ret, o.trace)
          /\ drv' = IF o.status = "returned"
                    THEN [drv EXCEPT !.pc = "done", !.test_misclas = o.ret[2]]
                    ELSE [drv EXCEPT !.pc = "aborted"]
    /\ calls' = calls + 1
    /\ UNCHANGED <<impl, inputs, feedforward_funcs, backprop_funcs, update_funcs, par,
                   codec>>

NextDriver ==
    \/ DrvLoad
    \/ DrvPrepare
    \/ DrvBuild
    \/ DrvPushLayer
    \/ DrvTrain
    \/ DrvValidate
    \/ DrvTest

SpecDriver == Init /\ [][NextDriver]_vars

---------------------------------------------------------------------------
(* Properties.  `last` holds the most recent call: its arguments, how it
   ended, the calls it made on the layers and the evaluator in order
   (last.trace), and the network as the call found it (last.pre). *)

\* The hidden layers in push order, as the last call found them
Hidden == last.pre.feedforward_funcs

NumHidden == Len(Hidden)

\* Every layer in forward order: the hidden layers, then the output layer
ForwardOrder == Hidden \o <<OutputLayer>>

\* The calls of one kind made by the last call, in order
TraceOf(kind) == SelectSeq(last.trace, LAMBDA e : e.kind = kind)

\* The seedBackProp and backPropagate calls of the last call, in order
GradientCalls == SelectSeq(last.trace, LAMBDA e : e.kind \in {"seed", "bwd"})

DiffSignals(layer, signals) == UnaryExpr(signals, LAMBDA f : differentiate(impl[layer], f))

\* C1: train with lr < 0 raises the invalid-argument error and leaves the
\* weights of every layer as they were before the call.
C1_NegativeRateRejected ==
    (last.op = "train" /\ last.lr < 0) =>
        /\ last.status = "invalid_argument"
        /\ weights = last.pre.weights

\* C2: in the forward pass of train and test, every layer after the first is
\* fed the post-activation outputs (second element of the forward pair) of the
\* layer before it.
C2_NextLayerFedOutputs ==
    last.op \in {"train", "test"} =>
        LET F == TraceOf("fwd")
        IN  \A k \in 1..(Len(F) - 1) : F[k + 1].a = F[k].ret[2]

\* C3: backPropagate(signals, upstream) returns the gradient
\* differentiate(signals) .* upstream together with that gradient multiplied
\* by the transposed weights without the bias row, as seedBackProp does for
\* the same arguments and weights.
C3_BackPropagateAsSeedBackProp ==
    \A k \in 1..Len(last.trace) :
        LET e == last.trace[k]
            W == last.pre.weights[e.layer]
            gradient == CwiseProduct(DiffSignals(e.layer, e.a), e.b)
        IN  e.kind = "bwd" =>
                /\ e.ret = <<gradient, transformGradient(W, gradient)>>
                /\ e.ret = seedBackProp(W, impl[e.layer], e.a, e.b)

\* C4: in the update pass of train every layer's updateWeights receives the
\* matrix that layer was fed in the forward pass of the same call; the first
\* layer in forward order receives the X passed to this call.
C4_UpdateFedForwardInput ==
    last.op = "train" =>
        LET F == TraceOf("fwd")
            U == TraceOf("upd")
        IN  \A k \in 1..Len(U) :
                /\ U[k].layer = F[k].layer
                /\ U[k].a = F[k].a
                /\ k = 1 => U[k].a = last.batch.X

\* C5: a train call with lr >= 0 on H hidden layers computes exactly H + 1
\* gradients and calls updateWeights exactly once on each of the H + 1 layers,
\* with the gradient the backward pass computed for that layer.
C5_OneGradientOneUpdatePerLayer ==
    (last.op = "train" /\ last.lr >= 0) =>
        LET G == GradientCalls
            U == TraceOf("upd")
        IN  /\ Len(G) = NumHidden + 1
            /\ Len(U) = NumHidden + 1
            /\ \A k \in 1..(NumHidden + 1) :
                  /\ U[k].layer = ForwardOrder[k]
                  /\ G[NumHidden + 2 - k].layer = ForwardOrder[k]
                  /\ U[k].b = G[NumHidden + 2 - k].ret[1]

\* The kind of the k-th call of a train call on H hidden layers
KindAt(k) ==
    IF k <= NumHidden + 1 THEN "fwd"
    ELSE IF k = NumHidden + 2 THEN "eval"
    ELSE IF k = NumHidden + 3 THEN "seed"
    ELSE IF k <= 2 * NumHidden + 3 THEN "bwd"
    ELSE "upd"

\* C6: the calls of one train call are strictly ordered: the forward calls
\* (hidden layers in push order, then the output layer), the evaluator,
\* seedBackProp on the output layer, backPropagate on the hidden layers in
\* reverse push order, each with its own stored signals and the transformed
\* gradient returned by the call before it, and only then the updateWeights
\* calls, so that every gradient is computed from the pre-update weights.
C6_StrictOrder ==
    last.op = "train" =>
        LET T == last.trace
            H == NumHidden
        IN  /\ Len(T) >= H + 2
            /\ Len(T) <= 3 * H + 4
            /\ Len(T) > H + 2 => Len(T) >= 2 * H + 3
            /\ last.status # "fatal" => Len(T) >= 2 * H + 3
            /\ \A k \in 1..Len(T) : T[k].kind = KindAt(k)
            /\ \A k \in 1..(H + 1) : T[k].layer = ForwardOrder[k]
            /\ Len(T) >= H + 3 =>
                  /\ T[H + 3].layer = OutputLayer
                  /\ T[H + 3].a = T[H + 1].ret[1]
                  /\ T[H + 3].b = T[H + 2].ret[2]
                  /\ T[H + 3].ret =
                        seedBackProp(last.pre.weights[OutputLayer], impl[OutputLayer],
                                     T[H + 3].a, T[H + 3].b)
            /\ \A j \in 1..H :
                  H + 3 + j <= Len(T) =>
                      LET e == T[H + 3 + j]
                      IN  /\ e.layer = Hidden[H + 1 - j]
                          /\ e.a = T[H + 1 - j].ret[1]
                          /\ e.b = T[H + 2 + j].ret[2]
                          /\ e.ret = backPropagate(last.pre.weights[e.layer],
                                                   impl[e.layer], e.a, e.b)

\* C6 witness: a train call on two hidden layers ran all three passes and
\* changed the weights.
C6_Witness ==
    /\ last.op = "train"
    /\ last.status = "returned"
    /\ NumHidden = 2
    /\ Len(last.trace) = 10
    /\ weights # last.pre.weights

\* C7: test makes only the forward calls and the evaluator call; afterwards
\* the weights of every layer, the recorded loss and the layer lists are as
\* before, and the value returned is the evaluator's (loss, metric) pair for
\* the final outputs of that forward pass.
C7_TestIsPure ==
    last.op = "test" =>
        LET T == last.trace
            n == Len(T)
        IN  /\ weights = last.pre.weights
            /\ loss = last.pre.loss
            /\ feedforward_funcs = last.pre.feedforward_funcs
            /\ backprop_funcs = last.pre.backprop_funcs
            /\ update_funcs = last.pre.update_funcs
            /\ n = NumHidden + 2
            /\ \A k \in 1..(n - 1) : T[k].kind = "fwd"
            /\ T[n].kind = "eval"
            /\ T[n].a = T[n - 1].ret[2]
            /\ T[n].b = last.batch.Y
            /\ last.status = "returned" =>
                  /\ last.ret = T[n].ret[1]
                  /\ \E o \in evaluate(T[n].a, last.batch.Y) :
                        ~o.fatal /\ o.loss = last.ret

\* C7 witness: a test call returned a pair other than the recorded loss,
\* which an earlier train call had written.
C7_Witness ==
    /\ last.op = "test"
    /\ last.status = "returned"
    /\ loss # <<0, 0>>
    /\ last.ret # loss

\* C8: train with learning rate 0 on any batch leaves the weights of every
\* layer as they were and returns the (loss, metric) pair that test returns
\* on the same batch.
C8_ZeroRateIsTest ==
    (last.op = "train" /\ last.lr = 0) =>
        /\ last.status = "returned"
        /\ weights = last.pre.weights
        /\ \A t \in test(feedforward_funcs, weights, loss, last.batch.X, last.batch.Y) :
              t.status = "returned" /\ t.ret = last.ret

\* C9: popLayer right after pushLayer restores the three lists to what they
\* were before the push, and with them the outcome of every later train call.
C9_PushPopRestores ==
    [][ (last.op = "push" /\ last'.op = "pop") =>
            /\ feedforward_funcs' = last.pre.feedforward_funcs
            /\ backprop_funcs' = last.pre.backprop_funcs
            /\ update_funcs' = last.pre.update_funcs
            /\ weights' = last.pre.weights
            /\ \A lr \in Rates, batch \in Batches :
                  train(feedforward_funcs', backprop_funcs', update_funcs', weights',
                        loss', lr, batch.X, batch.Y)
                  = train(last.pre.feedforward_funcs, last.pre.backprop_funcs,
                          last.pre.update_funcs, last.pre.weights, last.pre.loss,
                          lr, batch.X, batch.Y) ]_vars

\* C9 witness: a layer was pushed on a non-empty stack and popped at once.
C9_Witness ==
    /\ last.op = "pop"
    /\ last.prevOp = "push"
    /\ Len(feedforward_funcs) = 1
    /\ Len(last.pre.feedforward_funcs) = 2

\* C10: for every row count, rangeParExec applies the row function exactly
\* once to each row index 0..N-1 and to no other index; each application
\* writes only the slot of its own row, no slot is written twice, and every
\* slot is written when the aggregate after the join reads them.
C10_EachRowOnce ==
    par.phase \in {"joined", "reduced"} =>
        /\ Len(par.applied) = par.num_rows
        /\ \A r \in 0..(par.num_rows - 1) :
              Cardinality({k \in 1..Len(par.applied) : par.applied[k] = r}) = 1
        /\ \A k \in 1..Len(par.writes) :
              /\ par.writes[k].slot = par.writes[k].by
              /\ par.writes[k].slot \in 0..(par.num_rows - 1)
              /\ \A j \in 1..Len(par.writes) :
                    par.writes[j].slot = par.writes[k].slot => j = k
        /\ \A r \in 0..(par.num_rows - 1) :
              \E k \in 1..Len(par.writes) : par.writes[k].slot = r

\* C14: a train call that fails with the negative-learning-rate
\* invalid-argument error leaves the weights and the recorded loss as they
\* were before the call.
C14_FailedTrainKeepsLoss ==
    (last.op = "train" /\ last.status = "invalid_argument") =>
        /\ weights = last.pre.weights
        /\ loss = last.pre.loss

\* C15: after any sequence of pushLayer, popLayer, train and test calls the
\* three lists have the same length, the number of pushes minus the number of
\* pops, entry k of each refers to the same hidden layer, train and test
\* return (or fail on a negative rate) with the lists as they found them, and
\* the output layer's update function is not left in update_funcs.
C15_ListsInStep ==
    last.status # "fatal" =>
        /\ Len(feedforward_funcs) = last.pushes - last.pops
        /\ Len(backprop_funcs) = Len(feedforward_funcs)
        /\ Len(update_funcs) = Len(feedforward_funcs)
        /\ \A k \in 1..Len(feedforward_funcs) :
              /\ feedforward_funcs[k] \in HiddenLayers
              /\ backprop_funcs[k] = feedforward_funcs[k]
              /\ update_funcs[k] = feedforward_funcs[k]
        /\ last.op \in {"train", "test"} =>
              /\ feedforward_funcs = last.pre.feedforward_funcs
              /\ backprop_funcs = last.pre.backprop_funcs
              /\ update_funcs = last.pre.update_funcs

\* C15 witness: a train call on two pushed layers ran its update pass, in
\* which the output layer's update function is appended, and returned.
C15_Witness ==
    /\ last.op = "train"
    /\ last.status = "returned"
    /\ last.pushes = 2
    /\ Len(TraceOf("upd")) = 3
    /\ Len(update_funcs) = 2

\* The 0-based position of the single TRUE of a one-hot row
TrueColumn(row) == (CHOOSE c \in 1..Len(row) : row[c]) - 1

\* C11: for every number of classes C >= 1 and every N x C one-hot matrix,
\* toIndicesLabels returns the N-vector whose r-th entry is the column
\* position (0..C-1) of row r's single TRUE, which is the product of the row
\* with [0, 1, ..., C-1].
C11_IndexOfTrueColumn ==
    codec.op = "toIndicesLabels" =>
        /\ codec.status = "returned"
        /\ Len(codec.ret) = Len(codec.X)
        /\ \A r \in 1..Len(codec.X) :
              /\ codec.ret[r] = TrueColumn(codec.X[r])
              /\ codec.ret[r] =
                    Dot(Vec(codec.num_classes, LAMBDA c : BoolToInt(codec.X[r][c])),
                        Vec(codec.num_classes, LAMBDA c : c - 1))

\* C12: round trip: for every N >= 1, C >= 1 and every N x C one-hot matrix
\* X, toOneHotLabels(toIndicesLabels(X), C) returns without error and equals X.
C12_RoundTrip ==
    codec.op = "roundTrip" =>
        /\ codec.status = "returned"
        /\ codec.ret = codec.X

\* The number of rows whose lowest-index argmax of the softmax differs from
\* the true class index
Misclassified(outputs, one_hot_labels) ==
    Cardinality({ r \in 1..Len(one_hot_labels) :
                    ArgMax(softMax(outputs)[r]) # TrueColumn(one_hot_labels[r]) })

\* C13: for every N >= 1 and C >= 1 the evaluator returns, as the
\* misclassification rate, the number of rows whose predicted class (the
\* lowest-index argmax of the softmax row) differs from the true class index,
\* divided by N; it is 0 when every row's argmax is its true class, as for
\* outputs [[10,0],[0,10]] with labels [[1,0],[0,1]].
C13_MisclassificationRate ==
    codec.op = "softMaxLoss" =>
        /\ codec.status = "returned"
        /\ codec.ret[2] = Fix(Misclassified(codec.outputs, codec.X)) \div Len(codec.X)
        /\ Misclassified(codec.outputs, codec.X) = 0 => codec.ret[2] = 0

\* C16: the driver's train calls use the training dataset, the test calls of
\* the early-stopping loop the validation dataset, and the final test call
\* the inputs and labels taken from the loaded test dataset; the reported
\* metric is the misclassification rate that call returns.
C16_FinalTestOnTestSplit ==
    /\ (drv.pc = "validate" /\ last.op = "train") =>
            last.batch = toDataIndicesPairs(drv.train_data_labels)
    /\ (drv.pc = "train" /\ last.op = "test") =>
            last.batch = toDataIndicesPairs(drv.val_data_labels)
    /\ drv.pc = "done" =>
            /\ last.op = "test"
            /\ last.batch = toDataIndicesPairs(drv.test_data_labels)
            /\ drv.test_misclas = last.ret[2]

===========================================================================
